---------------------------- MODULE Spec2Model ----------------------------
(***************************************************************************)
(* A model of the facade of satisfactory-file-parser (parser.ts), of the   *)
(* FICFrameRange struct codec and of the vec2 struct codec.                *)
(*                                                                         *)
(* Bytes are naturals in 0..255.  A 64-bit integer is never held in one    *)
(* TLC integer: it is a little-endian sequence of eight bytes, and a       *)
(* bigint is a sign and a magnitude of eight base-256 limbs.               *)
(***************************************************************************)
EXTENDS Integers, Sequences, FiniteSets, TLC

VARIABLES
    fic,      \* the FICFrameRange codec at work
    vec,      \* the vec2 codec at work
    js,       \* JSONStringifyModified at work
    plan,     \* the entry points the caller has still to call, in order
    op,       \* the entry point that is running, or "none"
    pc,       \* the statement of op that runs next
    args,     \* the arguments of the running call
    curReader, \* its SaveReader or BlueprintReader
    curObj,   \* the save or blueprint it is building
    curWriter, \* its SaveWriter or BlueprintWriter
    trace,    \* the steps and callbacks of the running call, with how each ended
    outcome,  \* what the running call returned or threw
    emitted,  \* the buffers the running call handed to the supplied callbacks
    log       \* the calls that are over

pure == <<fic, vec, js>>

facade == <<plan, op, pc, args, curReader, curObj, curWriter, trace, outcome, emitted, log>>

vars == <<fic, vec, js, plan, op, pc, args, curReader, curObj, curWriter, trace, outcome,
          emitted, log>>

Idle == [pc |-> "idle"]

\* no facade call was made and none will be
FacadeIdle ==
    /\ plan = <<>> /\ op = "none" /\ pc = "idle" /\ args = <<>> /\ curReader = <<>>
    /\ curObj = <<>> /\ curWriter = <<>> /\ trace = <<>> /\ outcome = <<>>
    /\ emitted = <<>> /\ log = <<>>

(***************************************************************************)
(* Sequences and bytes                                                     *)
(***************************************************************************)
Slice(s, from, to) == SubSeq(s, from, to)

Zero8 == <<0, 0, 0, 0, 0, 0, 0, 0>>

RECURSIVE AddLE(_, _)
\* limbs + carry, little-endian, wrapping at the width of limbs
AddLE(limbs, carry) ==
    IF limbs = <<>> THEN <<>>
    ELSE LET t == Head(limbs) + carry
         IN  <<t % 256>> \o AddLE(Tail(limbs), t \div 256)

RECURSIVE NotLE(_)
NotLE(limbs) ==
    IF limbs = <<>> THEN <<>> ELSE <<255 - Head(limbs)>> \o NotLE(Tail(limbs))

\* two's complement negation at the width of limbs
NegateLE(limbs) == AddLE(NotLE(limbs), 1)

RECURSIVE MulAddLE(_, _, _)
\* limbs * m + carry, little-endian, wrapping at the width of limbs
MulAddLE(limbs, m, carry) ==
    IF limbs = <<>> THEN <<>>
    ELSE LET t == Head(limbs) * m + carry
         IN  <<t % 256>> \o MulAddLE(Tail(limbs), m, t \div 256)

RECURSIVE DivLE(_, _, _)
\* <<limbs \div d, limbs % d>> for rem * 256^Len(limbs) + limbs, from the most
\* significant limb down
DivLE(limbs, d, rem) ==
    IF limbs = <<>> THEN <<<<>>, rem>>
    ELSE LET n    == Len(limbs)
             t    == rem * 256 + limbs[n]
             rest == DivLE(SubSeq(limbs, 1, n - 1), d, t % d)
         IN  <<Append(rest[1], t \div d), rest[2]>>

IsZeroLE(limbs) == \A i \in 1..Len(limbs) : limbs[i] = 0

(***************************************************************************)
(* bigint: [neg, mag].  BigInt.prototype.toString() and BigInt(string).    *)
(***************************************************************************)
DigitChar == <<"0", "1", "2", "3", "4", "5", "6", "7", "8", "9">>

DigitOf(c) == CHOOSE d \in 0..9 : DigitChar[d + 1] = c

IsDigit(c) == \E d \in 0..9 : DigitChar[d + 1] = c

RECURSIVE MagToChars(_)
MagToChars(mag) ==
    IF IsZeroLE(mag) THEN <<>>
    ELSE LET qr == DivLE(mag, 10, 0)
         IN  MagToChars(qr[1]) \o <<DigitChar[qr[2] + 1]>>

\* BigInt.prototype.toString(): radix 10, "-" for a negative value, no padding
BigIntToString(v) ==
    IF IsZeroLE(v.mag) THEN <<"0">>
    ELSE (IF v.neg THEN <<"-">> ELSE <<>>) \o MagToChars(v.mag)

RECURSIVE CharsToMag(_, _)
CharsToMag(chars, acc) ==
    IF chars = <<>> THEN acc
    ELSE CharsToMag(Tail(chars), MulAddLE(acc, 10, DigitOf(Head(chars))))

\* BigInt(string) (StringToBigInt): an optional sign and decimal digits; the
\* empty string is 0n; anything else is a SyntaxError.  The magnitude is kept
\* modulo 2^64, which is all writeInt64 looks at.
StringToBigInt(chars) ==
    LET signed == chars # <<>> /\ Head(chars) \in {"-", "+"}
        digits == IF signed THEN Tail(chars) ELSE chars
    IN  IF (signed /\ digits = <<>>) \/ \E i \in 1..Len(digits) : ~IsDigit(digits[i])
        THEN [err |-> "SyntaxError"]
        ELSE LET mag == CharsToMag(digits, Zero8)
             IN  [err |-> "none", neg |-> signed /\ Head(chars) = "-" /\ ~IsZeroLE(mag),
                  mag |-> mag]

(***************************************************************************)
(* The byte reader and writer (BinaryReadable, ByteWriter): a position     *)
(* over a buffer, and an append-only buffer; little-endian.                *)
(***************************************************************************)
NewReader(buf) == [buf |-> buf, pos |-> 0]

NewWriter == <<>>

Remaining(r) == Len(r.buf) - r.pos

Peek(r, n) == Slice(r.buf, r.pos + 1, r.pos + n)

Advance(r, n) == [r EXCEPT !.pos = r.pos + n]

\* DataView.getBigInt64(pos, true): two's complement, little-endian
readInt64(r) ==
    LET b == Peek(r, 8)
    IN  IF b[8] >= 128 THEN [neg |-> TRUE, mag |-> NegateLE(b)]
        ELSE [neg |-> FALSE, mag |-> b]

\* DataView.setBigInt64(pos, v, true): v modulo 2^64, little-endian
writeInt64(w, v) == w \o (IF v.neg THEN NegateLE(v.mag) ELSE v.mag)

(***************************************************************************)
(* FICFrameRange                                                           *)
(***************************************************************************)
\* what Parse returns, and the reader after it
FICFrameRangeParse(r) ==
    LET b == readInt64(r)
        e == readInt64(Advance(r, 8))
    IN  [value |-> [begin |-> BigIntToString(b), end |-> BigIntToString(e)],
         reader |-> Advance(Advance(r, 8), 8)]

\* a Serialize that writes end before begin
FICFrameRangeSerializeSwapped(w, value) ==
    writeInt64(writeInt64(w, StringToBigInt(value.end)), StringToBigInt(value.begin))

\* the writer after Serialize
FICFrameRangeSerialize(w, value) ==
    writeInt64(writeInt64(w, StringToBigInt(value.begin)), StringToBigInt(value.end))

\* 64-bit values at and around the edges: 0, 1, -1, 2^63-1, -2^63, -10,
\* 2^53+1 (no double holds it), 1234567890
Int64Samples ==
    { Zero8,
      <<1, 0, 0, 0, 0, 0, 0, 0>>,
      <<255, 255, 255, 255, 255, 255, 255, 255>>,
      <<255, 255, 255, 255, 255, 255, 255, 127>>,
      <<0, 0, 0, 0, 0, 0, 0, 128>>,
      <<246, 255, 255, 255, 255, 255, 255, 255>>,
      <<1, 0, 0, 0, 0, 0, 32, 0>>,
      <<210, 2, 150, 73, 0, 0, 0, 0>> }

\* bytes that follow the struct in the reader's buffer
Trailers == {<<>>, <<7, 7>>}

FICInit ==
    /\ \E b \in Int64Samples, e \in Int64Samples, t \in Trailers :
          fic = [pc |-> "start", reader |-> NewReader(b \o e \o t),
                 value |-> [begin |-> <<>>, end |-> <<>>], writer |-> NewWriter]
    /\ vec = Idle
    /\ js = Idle
    /\ FacadeIdle

FICParseStep ==
    /\ fic.pc = "start"
    /\ LET p == FICFrameRangeParse(fic.reader)
       IN  fic' = [fic EXCEPT !.pc = "parsed", !.reader = p.reader, !.value = p.value]
    /\ UNCHANGED <<vec, js, facade>>

FICSerializeStep ==
    /\ fic.pc = "parsed"
    /\ fic' = [fic EXCEPT !.pc = "serialized",
                          !.writer = FICFrameRangeSerialize(fic.writer, fic.value)]
    /\ UNCHANGED <<vec, js, facade>>

FICNext == FICParseStep \/ FICSerializeStep

SpecFIC == FICInit /\ [][FICNext]_vars


\* the canonical decimal numerals: digits, no leading zero, no "+", no "-0"
CanonicalDecimal(chars) ==
    LET digits == IF chars # <<>> /\ Head(chars) = "-" THEN Tail(chars) ELSE chars
    IN  /\ digits # <<>>
        /\ \A i \in 1..Len(digits) : IsDigit(digits[i])
        /\ Len(digits) > 1 => digits[1] # "0"
        /\ Head(chars) = "-" => digits # <<"0">>

\* chars is the decimal numeral of the signed 64-bit value held in bytes: the
\* numeral's value is accumulated over nine limbs, so that it is not taken
\* modulo 2^64
ExactDecimal(chars, bytes) ==
    /\ CanonicalDecimal(chars)
    /\ LET neg    == Head(chars) = "-"
           digits == IF neg THEN Tail(chars) ELSE chars
           mag9   == CharsToMag(digits, Zero8 \o <<0>>)
       IN  /\ mag9[9] = 0
           /\ neg = (bytes[8] >= 128)
           /\ Slice(mag9, 1, 8) = (IF neg THEN NegateLE(bytes) ELSE bytes)

FICInput(i) == Slice(fic.reader.buf, 8 * i - 7, 8 * i)

\* C8: FICFrameRange.Parse consumes exactly two int64, the first into begin
\* and the second into end, each as the exact decimal text of the value, and
\* FICFrameRange.Serialize of that result writes exactly the 16 bytes read,
\* begin first.
C8_FICFrameRangeRoundTrip ==
    /\ fic.pc \in {"parsed", "serialized"} =>
          /\ fic.reader.pos = 16
          /\ ExactDecimal(fic.value.begin, FICInput(1))
          /\ ExactDecimal(fic.value.end, FICInput(2))
    /\ fic.pc = "serialized" =>
          /\ Len(fic.writer) = 16
          /\ fic.writer = Slice(fic.reader.buf, 1, 16)

\* -2^63 and 2^63-1 were read, carried as their numerals, and written back
C8_Witness ==
    /\ fic.pc = "serialized"
    /\ FICInput(1) = <<0, 0, 0, 0, 0, 0, 0, 128>>
    /\ FICInput(2) = <<255, 255, 255, 255, 255, 255, 255, 127>>
    /\ fic.value.begin = <<"-", "9", "2", "2", "3", "3", "7", "2", "0", "3", "6",
                           "8", "5", "4", "7", "7", "5", "8", "0", "8">>
    /\ fic.value.end = <<"9", "2", "2", "3", "3", "7", "2", "0", "3", "6",
                         "8", "5", "4", "7", "7", "5", "8", "0", "7">>
    /\ fic.writer = FICInput(1) \o FICInput(2)


(***************************************************************************)
(* IEEE-754.  A JavaScript number is a double: [nan, neg, bexp, frac] with *)
(* the biased exponent and the 52 fraction bits, most significant first;   *)
(* a NaN carries nothing else (its sign and payload are not observable).   *)
(***************************************************************************)
ByteBits(b) == [i \in 1..8 |-> (b \div (2 ^ (8 - i))) % 2]

\* the bits of a little-endian byte sequence, most significant first
BitsOf(bytes) ==
    LET n == Len(bytes)
    IN  [i \in 1..(8 * n) |-> ByteBits(bytes[n - ((i - 1) \div 8)])[((i - 1) % 8) + 1]]

RECURSIVE BitsToInt(_)
BitsToInt(bits) ==
    IF bits = <<>> THEN 0
    ELSE 2 * BitsToInt(Slice(bits, 1, Len(bits) - 1)) + bits[Len(bits)]

IntToBits(v, n) == [i \in 1..n |-> (v \div (2 ^ (n - i))) % 2]

\* the little-endian bytes of a bit sequence given most significant first
BytesOfBits(bits) ==
    LET n == Len(bits) \div 8
    IN  [j \in 1..n |-> BitsToInt(Slice(bits, 8 * (n - j) + 1, 8 * (n - j) + 8))]

Zeros(n) == [i \in 1..n |-> 0]

AllZero(bits) == \A i \in 1..Len(bits) : bits[i] = 0

NaN == [nan |-> TRUE, neg |-> FALSE, bexp |-> 2047, frac |-> Zeros(52)]

Finite(neg, bexp, frac) == [nan |-> FALSE, neg |-> neg, bexp |-> bexp, frac |-> frac]

IsNaN64(bytes) ==
    LET bits == BitsOf(bytes)
    IN  BitsToInt(Slice(bits, 2, 12)) = 2047 /\ ~AllZero(Slice(bits, 13, 64))

IsNaN32(bytes) ==
    LET bits == BitsOf(bytes)
    IN  BitsToInt(Slice(bits, 2, 9)) = 255 /\ ~AllZero(Slice(bits, 10, 32))

\* DataView.getFloat64(pos, true)
readDouble(r) ==
    LET bits == BitsOf(Peek(r, 8))
    IN  IF IsNaN64(Peek(r, 8)) THEN NaN
        ELSE Finite(bits[1] = 1, BitsToInt(Slice(bits, 2, 12)), Slice(bits, 13, 64))

\* DataView.getFloat32(pos, true): the float widened to a double; a
\* subnormal float is a normal double
readFloat32(r) ==
    LET bits == BitsOf(Peek(r, 4))
        neg  == bits[1] = 1
        e8   == BitsToInt(Slice(bits, 2, 9))
        f23  == Slice(bits, 10, 32)
        k    == CHOOSE i \in 1..23 : f23[i] = 1 /\ \A j \in 1..(i - 1) : f23[j] = 0
    IN  IF IsNaN32(Peek(r, 4)) THEN NaN
        ELSE IF e8 = 255 THEN Finite(neg, 2047, Zeros(52))
        ELSE IF e8 = 0 /\ AllZero(f23) THEN Finite(neg, 0, Zeros(52))
        ELSE IF e8 = 0 THEN Finite(neg, 897 - k, Slice(f23, k + 1, 23) \o Zeros(29 + k))
        ELSE Finite(neg, e8 + 896, f23 \o Zeros(29))

\* DataView.setFloat64(pos, v, true); nanBytes is the NaN the engine writes
writeDouble(w, v, nanBytes) ==
    w \o (IF v.nan THEN nanBytes
          ELSE BytesOfBits(<<IF v.neg THEN 1 ELSE 0>> \o IntToBits(v.bexp, 11) \o v.frac))

\* DataView.setFloat32(pos, v, true): the double rounded to the nearest
\* float, ties to even; exponent and fraction are rounded as one 31-bit
\* integer, so that a carry out of the fraction raises the exponent and a
\* carry out of the largest exponent gives infinity
writeFloat32(w, v, nanBytes) ==
    LET e      == v.bexp - 1023
        normal == e >= -126
        shift  == -126 - e
        after  == IF normal THEN v.frac
                  ELSE IF shift > 30 THEN Zeros(24) \o <<1>>
                  ELSE Zeros(shift - 1) \o <<1>> \o v.frac
        kept   == Slice(after, 1, 23)
        rest   == Slice(after, 24, Len(after))
        m31    == (IF normal THEN (e + 127) * (2 ^ 23) ELSE 0) + BitsToInt(kept)
        up     == rest[1] = 1 /\ (kept[23] = 1 \/ ~AllZero(Tail(rest)))
        mag    == IF v.bexp = 2047 \/ e > 127 THEN 255 * (2 ^ 23)
                  ELSE IF v.bexp = 0 THEN 0
                  ELSE m31 + (IF up THEN 1 ELSE 0)
    IN  w \o (IF v.nan THEN nanBytes
              ELSE BytesOfBits(<<IF v.neg THEN 1 ELSE 0>> \o IntToBits(mag, 31)))

(***************************************************************************)
(* vec2                                                                    *)
(***************************************************************************)
vec2Parse(r) ==
    [value  |-> [x |-> readDouble(r), y |-> readDouble(Advance(r, 8))],
     reader |-> Advance(Advance(r, 8), 8)]

\* a Serialize that writes single precision, as SerializeF does
vec2SerializeNarrow(w, v, nx, ny) ==
    writeFloat32(writeFloat32(w, v.x, Slice(nx, 5, 8)), v.y, Slice(ny, 5, 8))

\* nx, ny: the NaN bytes the engine writes for x and for y
vec2Serialize(w, v, nx, ny) == writeDouble(writeDouble(w, v.x, nx), v.y, ny)

vec2ParseF(r) ==
    [value  |-> [x |-> readFloat32(r), y |-> readFloat32(Advance(r, 4))],
     reader |-> Advance(Advance(r, 4), 4)]

vec2SerializeF(w, v, nx, ny) == writeFloat32(writeFloat32(w, v.x, nx), v.y, ny)

\* +0, -0, 1.0, 2.5, 0.1, +infinity, the least subnormal, a quiet and a
\* signalling NaN
DoubleSamples ==
    { Zero8,
      <<0, 0, 0, 0, 0, 0, 0, 128>>,
      <<0, 0, 0, 0, 0, 0, 240, 63>>,
      <<0, 0, 0, 0, 0, 0, 4, 64>>,
      <<154, 153, 153, 153, 153, 153, 185, 63>>,
      <<0, 0, 0, 0, 0, 0, 240, 127>>,
      <<1, 0, 0, 0, 0, 0, 0, 0>>,
      <<0, 0, 0, 0, 0, 0, 248, 127>>,
      <<1, 0, 0, 0, 0, 0, 240, 127>> }

FloatSamples ==
    { <<0, 0, 0, 0>>,
      <<0, 0, 0, 128>>,
      <<0, 0, 128, 63>>,
      <<0, 0, 32, 64>>,
      <<205, 204, 204, 61>>,
      <<0, 0, 128, 127>>,
      <<1, 0, 0, 0>>,
      <<0, 0, 192, 127>>,
      <<1, 0, 128, 127>> }

NaNs64 == {b \in DoubleSamples : IsNaN64(b)}

NaNs32 == {b \in FloatSamples : IsNaN32(b)}

\* the width of a component of each flavour
Width(flavour) == IF flavour = "double" THEN 8 ELSE 4

VecInit ==
    /\ \E flavour \in {"double", "float"}, t \in Trailers :
          \E x, y \in (IF flavour = "double" THEN DoubleSamples ELSE FloatSamples) :
             vec = [pc |-> "start", flavour |-> flavour, reader |-> NewReader(x \o y \o t),
                    value |-> [x |-> NaN, y |-> NaN], writer |-> NewWriter]
    /\ fic = Idle
    /\ js = Idle
    /\ FacadeIdle

VecParse ==
    /\ vec.pc = "start" /\ vec.flavour = "double"
    /\ LET p == vec2Parse(vec.reader)
       IN  vec' = [vec EXCEPT !.pc = "parsed", !.reader = p.reader, !.value = p.value]
    /\ UNCHANGED <<fic, js, facade>>

VecSerialize ==
    /\ vec.pc = "parsed" /\ vec.flavour = "double"
    /\ \E nx, ny \in NaNs64 :
          vec' = [vec EXCEPT !.pc = "serialized",
                             !.writer = vec2Serialize(vec.writer, vec.value, nx, ny)]
    /\ UNCHANGED <<fic, js, facade>>

VecParseF ==
    /\ vec.pc = "start" /\ vec.flavour = "float"
    /\ LET p == vec2ParseF(vec.reader)
       IN  vec' = [vec EXCEPT !.pc = "parsed", !.reader = p.reader, !.value = p.value]
    /\ UNCHANGED <<fic, js, facade>>

VecSerializeF ==
    /\ vec.pc = "parsed" /\ vec.flavour = "float"
    /\ \E nx, ny \in NaNs32 :
          vec' = [vec EXCEPT !.pc = "serialized",
                             !.writer = vec2SerializeF(vec.writer, vec.value, nx, ny)]
    /\ UNCHANGED <<fic, js, facade>>

VecNext == VecParse \/ VecSerialize \/ VecParseF \/ VecSerializeF

SpecVec == VecInit /\ [][VecNext]_vars

\* the number a reader of the given flavour reads at byte offset off of buf
ReadAt(flavour, buf, off) ==
    IF flavour = "double" THEN readDouble([buf |-> buf, pos |-> off])
    ELSE readFloat32([buf |-> buf, pos |-> off])

\* C9: the double flavour reads and writes two 8-byte values, x then y; the
\* float flavour two 4-byte values, x then y; and serializing the parsed
\* value with the same flavour gives as many bytes as were consumed, each
\* component at the offset it was read from.
C9_Vec2HonoursFlavour ==
    LET w == Width(vec.flavour)
    IN  /\ vec.pc \in {"parsed", "serialized"} =>
              /\ vec.reader.pos = 2 * w
              /\ vec.value.x = ReadAt(vec.flavour, vec.reader.buf, 0)
              /\ vec.value.y = ReadAt(vec.flavour, vec.reader.buf, w)
        /\ vec.pc = "serialized" =>
              /\ Len(vec.writer) = vec.reader.pos
              /\ ReadAt(vec.flavour, vec.writer, 0) = vec.value.x
              /\ ReadAt(vec.flavour, vec.writer, w) = vec.value.y
              /\ \A i \in {0, 1} :
                    ~ReadAt(vec.flavour, vec.reader.buf, i * w).nan =>
                       Slice(vec.writer, i * w + 1, i * w + w)
                          = Slice(vec.reader.buf, i * w + 1, i * w + w)

\* the float flavour round-tripped (-0, 0.1f) in 8 bytes
C9_Witness ==
    /\ vec.pc = "serialized" /\ vec.flavour = "float"
    /\ Len(vec.reader.buf) > 8
    /\ vec.writer = <<0, 0, 0, 128, 205, 204, 204, 61>>
    /\ vec.value.x.neg /\ vec.value.x.bexp = 0
    /\ vec.value.y.bexp = 1019


(***************************************************************************)
(* JavaScript values, as JSON.stringify looks at them.  One record shape:  *)
(* t is the type; a finite number is (-1)^neg * (n + d/10); a bigint is    *)
(* neg and mag; a string is the characters s; an array is items; an object *)
(* is the property names keys (in order) and their values items.           *)
(***************************************************************************)
Val(t, neg, n, d, mag, s, items, keys) ==
    [t |-> t, neg |-> neg, n |-> n, d |-> d, mag |-> mag, s |-> s,
     items |-> items, keys |-> keys]

Undefined == Val("undefined", FALSE, 0, 0, <<>>, <<>>, <<>>, <<>>)
Null == Val("null", FALSE, 0, 0, <<>>, <<>>, <<>>, <<>>)
Bool(b) == Val("boolean", b, 0, 0, <<>>, <<>>, <<>>, <<>>)
Number(neg, n, d) == Val("number", neg, n, d, <<>>, <<>>, <<>>, <<>>)
NotANumber == Val("nan", FALSE, 0, 0, <<>>, <<>>, <<>>, <<>>)
Infinity(neg) == Val("infinity", neg, 0, 0, <<>>, <<>>, <<>>, <<>>)
BigIntOf(bytes) ==
    LET v == readInt64(NewReader(bytes))
    IN  Val("bigint", v.neg, 0, 0, v.mag, <<>>, <<>>, <<>>)
String(chars) == Val("string", FALSE, 0, 0, <<>>, chars, <<>>, <<>>)
Array(items) == Val("array", FALSE, 0, 0, <<>>, <<>>, items, <<>>)
Object(keys, items) == Val("object", FALSE, 0, 0, <<>>, <<>>, items, keys)

NegZero == Number(TRUE, 0, 0)
PosZero == Number(FALSE, 0, 0)

\* typeof value
TypeOf(v) ==
    IF v.t \in {"number", "nan", "infinity"} THEN "number"
    ELSE IF v.t \in {"array", "object", "null"} THEN "object"
    ELSE v.t

\* value === 0: both zeros are
StrictEqualsZero(v) == v.t = "number" /\ v.n = 0 /\ v.d = 0

\* 1 / value < 0, for a number: 1 / -0 is -Infinity, 1 / -Infinity is -0,
\* 1 / NaN is NaN
ReciprocalIsNegative(v) == v.t = "number" /\ v.neg

\* a replacer that handles -0 and leaves bigints alone
ReplacerZeroOnly(key, value) ==
    IF TypeOf(value) = "bigint" THEN String(BigIntToString(value))
    ELSE IF StrictEqualsZero(value) THEN String(<<"-", "0">>)
    ELSE value

\* the replacer JSONStringifyModified hands to JSON.stringify
Replacer(key, value) ==
    IF TypeOf(value) = "bigint" THEN String(BigIntToString(value))
    ELSE IF StrictEqualsZero(value) /\ ReciprocalIsNegative(value)
         THEN String(<<"-", "0">>)
    ELSE value

RECURSIVE NatToChars(_)
NatToChars(n) ==
    IF n < 10 THEN <<DigitChar[n + 1]>>
    ELSE NatToChars(n \div 10) \o <<DigitChar[(n % 10) + 1]>>

\* Number::toString of a finite number: -0 is "0"
NumberToString(v) ==
    (IF v.neg /\ ~(v.n = 0 /\ v.d = 0) THEN <<"-">> ELSE <<>>)
    \o NatToChars(v.n)
    \o (IF v.d # 0 THEN <<".", DigitChar[v.d + 1]>> ELSE <<>>)

RECURSIVE QuoteChars(_)
QuoteChars(chars) ==
    IF chars = <<>> THEN <<>>
    ELSE (IF Head(chars) \in {"\"", "\\"} THEN <<"\\", Head(chars)>> ELSE <<Head(chars)>>)
         \o QuoteChars(Tail(chars))

\* QuoteJSONString
QuoteJSONString(chars) == <<"\"">> \o QuoteChars(chars) \o <<"\"">>

Spaces(n) == [i \in 1..n |-> " "]

Text(chars) == [k |-> "text", text |-> chars]
NoText == [k |-> "undefined", text |-> <<>>]
TypeError == [k |-> "TypeError", text |-> <<>>]

RECURSIVE Join(_, _)
\* the texts of parts, sep between them
Join(parts, sep) ==
    IF parts = <<>> THEN <<>>
    ELSE IF Len(parts) = 1 THEN parts[1]
    ELSE parts[1] \o sep \o Join(Tail(parts), sep)

RECURSIVE SerializeJSONProperty(_, _, _, _, _)
\* SerializeJSONProperty: the value of holder[key], through the replacer when
\* there is one, then by type; gap is the indent unit and indent the current
\* indentation (both counts of spaces)
SerializeJSONProperty(key, held, replacer, gap, indent) ==
    LET value   == IF replacer THEN Replacer(key, held) ELSE held
        stepped == indent + gap
        sep     == IF gap = 0 THEN <<",">> ELSE <<",", "\n">> \o Spaces(stepped)
        open    == IF gap = 0 THEN <<>> ELSE <<"\n">> \o Spaces(stepped)
        close   == IF gap = 0 THEN <<>> ELSE <<"\n">> \o Spaces(indent)
        parts   == [i \in 1..Len(value.items) |->
                      SerializeJSONProperty(
                          IF value.t = "object" THEN value.keys[i] ELSE NatToChars(i - 1),
                          value.items[i], replacer, gap, stepped)]
        failed  == \E i \in 1..Len(value.items) : parts[i].k = "TypeError"
        \* SerializeJSONArray: undefined is null
        elems   == [i \in 1..Len(value.items) |->
                      IF parts[i].k = "undefined" THEN <<"n", "u", "l", "l">>
                      ELSE parts[i].text]
        \* SerializeJSONObject: a property whose value is undefined is left out
        kept    == SelectSeq([i \in 1..Len(value.items) |-> i],
                             LAMBDA i : parts[i].k = "text")
        members == [j \in 1..Len(kept) |->
                      QuoteJSONString(value.keys[kept[j]]) \o <<":">>
                      \o (IF gap = 0 THEN <<>> ELSE <<" ">>) \o parts[kept[j]].text]
    IN  CASE value.t = "null" -> Text(<<"n", "u", "l", "l">>)
          [] value.t = "boolean" ->
                Text(IF value.neg THEN <<"t", "r", "u", "e">> ELSE <<"f", "a", "l", "s", "e">>)
          [] value.t = "string" -> Text(QuoteJSONString(value.s))
          [] value.t = "number" -> Text(NumberToString(value))
          [] value.t \in {"nan", "infinity"} -> Text(<<"n", "u", "l", "l">>)
          [] value.t = "bigint" -> TypeError
          [] value.t = "array" ->
                IF failed THEN TypeError
                ELSE IF elems = <<>> THEN Text(<<"[", "]">>)
                ELSE Text(<<"[">> \o open \o Join(elems, sep) \o close \o <<"]">>)
          [] value.t = "object" ->
                IF failed THEN TypeError
                ELSE IF members = <<>> THEN Text(<<"{", "}">>)
                ELSE Text(<<"{">> \o open \o Join(members, sep) \o close \o <<"}">>)
          [] OTHER -> NoText

\* JSON.stringify(value, replacer, space) for a numeric space: the gap is
\* min(10, space) spaces, none below 1
JSONStringify(value, replacer, space) ==
    SerializeJSONProperty(<<>>, value, replacer,
                          IF space < 1 THEN 0 ELSE IF space > 10 THEN 10 ELSE space, 0)

JSONStringifyModified(obj, indent) == JSONStringify(obj, TRUE, indent)

Int64Max == <<255, 255, 255, 255, 255, 255, 255, 127>>
Int64Min == <<0, 0, 0, 0, 0, 0, 0, 128>>

\* values that meet every branch of the replacer and of the serializer
CoreValues ==
    { PosZero, NegZero, Number(TRUE, 1, 5), BigIntOf(Int64Max), BigIntOf(Int64Min),
      String(<<"-", "0">>), Undefined }

PrimitiveValues ==
    CoreValues \cup
    { Null, Bool(TRUE), Bool(FALSE), Number(FALSE, 10, 0), Number(TRUE, 0, 1),
      NotANumber, Infinity(TRUE), BigIntOf(Zero8), BigIntOf(<<1, 0, 0, 0, 0, 0, 32, 0>>),
      String(<<"a", "\"", "\\">>), String(<<"9", "2", "2", "3">>) }

JSValues ==
    PrimitiveValues
    \cup { Array(<<>>), Object(<<>>, <<>>) }
    \cup { Array(<<p, q>>) : p, q \in CoreValues }
    \cup { Object(<<<<"a">>, <<"b">>>>, <<p, Array(<<q>>)>>) : p, q \in CoreValues }
    \cup { Array(<<Object(<<<<"k">>>>, <<p>>)>>) : p \in PrimitiveValues }

Indents == {0, 2}

JSInit ==
    /\ \E obj \in JSValues, indent \in Indents :
          js = [pc |-> "start", obj |-> obj, indent |-> indent, result |-> NoText]
    /\ fic = Idle
    /\ vec = Idle
    /\ FacadeIdle

JSStringify ==
    /\ js.pc = "start"
    /\ js' = [js EXCEPT !.pc = "done",
                        !.result = JSONStringifyModified(js.obj, js.indent)]
    /\ UNCHANGED <<fic, vec, facade>>

JSNext == JSStringify

SpecJSON == JSInit /\ [][JSNext]_vars

RECURSIVE Rendered(_)
\* the value with every bigint in it replaced by the string of its decimal
\* numeral and every negative zero by the string "-0"
Rendered(v) ==
    IF v.t = "bigint" THEN String(BigIntToString(v))
    ELSE IF v = NegZero THEN String(<<"-", "0">>)
    ELSE [v EXCEPT !.items = [i \in 1..Len(v.items) |-> Rendered(v.items[i])]]

RECURSIVE HasBigIntOrNegZero(_)
HasBigIntOrNegZero(v) ==
    \/ v.t = "bigint"
    \/ v = NegZero
    \/ \E i \in 1..Len(v.items) : HasBigIntOrNegZero(v.items[i])

HashLen == 3

PackageFileTag == 193

SaveHeaderLen == 3

BlueprintHeaderLen == 2

ChunkHeaderLen == 4

ConfigLen == 2

\* the thresholds of the rough version
VersionU6 == 29
HeaderTypeU8 == 13
VersionCurrent == 46

Ok(value, reader) == [ok |-> TRUE, value |-> value, reader |-> reader, error |-> "none"]

Fail(error, reader) == [ok |-> FALSE, value |-> <<>>, reader |-> reader, error |-> error]

\* the stand-in for deflate and inflate: the bytes reversed and complemented
RECURSIVE Deflate(_)
Deflate(bytes) ==
    IF bytes = <<>> THEN <<>>
    ELSE Deflate(Tail(bytes)) \o <<255 - Head(bytes)>>

Inflate(bytes) == Deflate(bytes)

NoCompressionInfo == [packageFileTag |-> 0, maxUncompressedChunkContentSize |-> 0]

\* new SaveReader(buffer), new BlueprintReader(buffer), new BlueprintConfigReader(buffer)
NewFileReader(buffer) == [buf |-> buffer, pos |-> 0, compressionInfo |-> NoCompressionInfo]

readBytes(r, n) ==
    IF Remaining(r) < n THEN Fail("UnexpectedEndOfStream", r)
    ELSE Ok(Peek(r, n), Advance(r, n))

\* SaveReader.readHeader
readHeader(r) ==
    LET b == readBytes(r, SaveHeaderLen)
    IN  IF ~b.ok THEN b
        ELSE Ok([saveVersion |-> b.value[1], saveHeaderType |-> b.value[2],
                 buildVersion |-> b.value[3]], b.reader)

\* SaveReader.GetRoughSaveVersion
GetRoughSaveVersion(saveVersion, saveHeaderType) ==
    IF saveVersion >= VersionCurrent THEN "current"
    ELSE IF saveHeaderType >= HeaderTypeU8 THEN "U8"
    ELSE IF saveVersion >= VersionU6 THEN "U6/U7"
    ELSE "<U6"

RECURSIVE InflateFrom(_, _, _)
\* the chunks from the reader's position to the end of its buffer: the first
\* chunk's header gives the compression info, the later ones must agree
InflateFrom(r, info, body) ==
    IF Remaining(r) = 0 THEN Ok([info |-> info, body |-> body], r)
    ELSE LET h == readBytes(r, ChunkHeaderLen)
             d == readBytes(h.reader, h.value[3])
             i == [packageFileTag |-> h.value[1],
                   maxUncompressedChunkContentSize |-> h.value[2]]
         IN  IF ~h.ok THEN Fail("UnexpectedEndOfStream", r)
             ELSE IF h.value[1] # PackageFileTag THEN Fail("MalformedChunkHeader", r)
             ELSE IF info # NoCompressionInfo /\ i # info THEN Fail("MalformedChunkHeader", r)
             ELSE IF ~d.ok THEN Fail("UnexpectedEndOfStream", r)
             ELSE IF Len(Inflate(d.value)) # h.value[4] THEN Fail("ChecksumMismatch", r)
             ELSE InflateFrom(d.reader, i, body \o Inflate(d.value))

\* inflateChunks: afterwards the reader is over the inflated body
inflateChunks(r) ==
    LET x == InflateFrom(r, NoCompressionInfo, <<>>)
    IN  IF ~x.ok THEN x
        ELSE Ok([inflatedData |-> x.value.body],
                [buf |-> x.value.body, pos |-> 0, compressionInfo |-> x.value.info])

\* SaveReader.readSaveBodyHash
readSaveBodyHash(r) == readBytes(r, HashLen)

\* a count and then count bytes, one an entry
readCounted(r, extra) ==
    LET c == readBytes(r, 1)
    IN  IF ~c.ok THEN c ELSE readBytes(c.reader, c.value[1] + extra)

\* SaveReader.readGrids
readGrids(r) == readCounted(r, 0)

\* SaveReader.readLevels: n, then n + 1 levels, the last the persistent level
readLevels(r) == readCounted(r, 1)

\* BlueprintReader.ReadHeader
BlueprintReadHeader(r) ==
    LET b == readBytes(r, BlueprintHeaderLen)
    IN  IF ~b.ok THEN b
        ELSE Ok([headerVersion |-> b.value[1], dimension |-> b.value[2]], b.reader)

\* BlueprintReader.ParseObjects
BlueprintParseObjects(r) == readCounted(r, 0)

\* BlueprintConfigReader.ParseConfig
BlueprintParseConfig(r) ==
    LET b == readBytes(r, ConfigLen)
    IN  IF ~b.ok THEN b ELSE Ok([iconID |-> b.value[1], color |-> b.value[2]], b.reader)

\* SaveWriter.WriteHeader
WriteHeader(w, header) ==
    w \o <<header.saveVersion, header.saveHeaderType, header.buildVersion>>

\* SaveWriter.WriteSaveBodyHash
WriteSaveBodyHash(w, gridHash) == w \o gridHash

\* SaveWriter.WriteGrids
WriteGrids(w, grids) == w \o <<Len(grids)>> \o grids

\* SaveWriter.WriteLevels
WriteLevels(w, levels, buildVersion) == w \o <<Len(levels) - 1>> \o levels

\* BlueprintWriter.SerializeHeader
BlueprintSerializeHeader(w, header) == w \o <<header.headerVersion, header.dimension>>

\* BlueprintWriter.SerializeObjects
BlueprintSerializeObjects(w, objects) == w \o <<Len(objects)>> \o objects

\* BlueprintConfigWriter.SerializeConfig
BlueprintSerializeConfig(w, config) == w \o <<config.iconID, config.color>>

RECURSIVE ChunksOf(_, _)
\* generateChunks: the body cut into pieces of the maximal chunk size, the
\* last one maybe shorter, each compressed behind its chunk header
ChunksOf(body, info) ==
    LET max   == info.maxUncompressedChunkContentSize
        n     == IF Len(body) < max THEN Len(body) ELSE max
        piece == Deflate(SubSeq(body, 1, n))
    IN  IF body = <<>> THEN <<>>
        ELSE <<<<info.packageFileTag, max, Len(piece), n>> \o piece>>
             \o ChunksOf(SubSeq(body, n + 1, Len(body)), info)

RECURSIVE Flatten(_)
Flatten(seqs) == IF seqs = <<>> THEN <<>> ELSE Head(seqs) \o Flatten(Tail(seqs))

RECURSIVE SummaryOf(_, _)
\* the chunk summary: the sizes of each chunk and its offset in the output
SummaryOf(chunks, offset) ==
    IF chunks = <<>> THEN <<>>
    ELSE <<[uncompressedSize |-> Head(chunks)[4], compressedSize |-> Head(chunks)[3],
            offset |-> offset]>>
         \o SummaryOf(Tail(chunks), offset + Len(Head(chunks)))

(***************************************************************************)
(* The caller's inputs.  A Uint8Array or Buffer is a view: an ArrayBuffer, *)
(* a byte offset in it and a length.                                       *)
(***************************************************************************)
View(buffer, byteOffset, byteLength) ==
    [buffer |-> buffer, byteOffset |-> byteOffset, byteLength |-> byteLength]

WholeOf(bytes) == View(bytes, 0, Len(bytes))

\* the bytes of the view: bytes[0 .. bytes.length)
Contents(view) ==
    SubSeq(view.buffer, view.byteOffset + 1, view.byteOffset + view.byteLength)

\* new Uint8Array(view).buffer: a fresh buffer holding a copy of the view
CopyOf(view) == Contents(view)

RECURSIVE Iota(_, _)
\* n bytes counting up from base + 1
Iota(n, base) == IF n = 0 THEN <<>> ELSE Iota(n - 1, base) \o <<base + n>>

Info(max) == [packageFileTag |-> PackageFileTag, maxUncompressedChunkContentSize |-> max]

MakeFile(header, body, max) == header \o Flatten(ChunksOf(body, Info(max)))

MakeBody(gridHash, grids, levels) ==
    gridHash \o <<Len(grids)>> \o grids \o <<Len(levels) - 1>> \o levels

CurrentHeader == <<46, 13, 7>>

NestedHeader == <<50, 14, 8>>

\* one header for each rough version, two for the current one
SaveHeaders == {<<5, 5, 7>>, <<29, 9, 7>>, <<42, 13, 7>>, CurrentHeader, NestedHeader}

FullBody == MakeBody(Iota(HashLen, 10), <<21>>, <<31, 32>>)

LegalBodies ==
    { MakeBody(Iota(HashLen, 10), g, l) : g \in {<<>>, <<21>>}, l \in {<<31>>, <<31, 32>>} }

\* a legal save whose bytes from offset 7 on are a legal save too: its first
\* chunk holds the first bytes of the hash and deflates to NestedHeader, and
\* what follows reads both as the rest of the hash, grids and levels and as
\* hash, grids and levels
OuterBody ==
    Inflate(NestedHeader) \o Iota(HashLen - SaveHeaderLen, 60) \o <<1, 21, 2, 0, 0, 33>>

OuterSave == MakeFile(CurrentHeader, OuterBody, 3)

NestedOffset == SaveHeaderLen + ChunkHeaderLen

NestedSave == SubSeq(OuterSave, NestedOffset + 1, Len(OuterSave))

LegalSaves ==
    { MakeFile(h, FullBody, 3) : h \in SaveHeaders }
    \cup { MakeFile(CurrentHeader, b, 3) : b \in LegalBodies }
    \cup { MakeFile(CurrentHeader, FullBody, 4) }
    \cup { OuterSave, NestedSave }

\* a header cut short; a header and nothing else; a wrong chunk tag; a chunk
\* cut short; a chunk that inflates to another size than it declares; two
\* chunks that disagree on the chunk size; bodies cut short in the hash, in
\* the grids and in the levels
BrokenSaves ==
    { <<46, 13>>,
      CurrentHeader,
      CurrentHeader \o <<7, 3, 1, 1, 0>>,
      SubSeq(MakeFile(CurrentHeader, FullBody, 3), 1,
             Len(MakeFile(CurrentHeader, FullBody, 3)) - 1),
      CurrentHeader \o <<PackageFileTag, 3, 2, 3, 1, 2>>,
      CurrentHeader \o <<PackageFileTag, 3, 1, 1, 0>> \o <<PackageFileTag, 4, 1, 1, 0>> }
    \cup { MakeFile(CurrentHeader, SubSeq(FullBody, 1, k), 3) :
              k \in {HashLen - 1, HashLen + 1, Len(FullBody) - 1} }

SaveFiles == LegalSaves \cup BrokenSaves

\* what precedes a file in a buffer it shares with others
Padding == <<0, 0>>

\* a file in a buffer of its own; a file behind other bytes of a shared
\* buffer; the nested save where it lies in the outer one
SaveViews ==
    { WholeOf(f) : f \in SaveFiles }
    \cup { View(Padding \o f, Len(Padding), Len(f)) :
              f \in {MakeFile(CurrentHeader, FullBody, 3), NestedSave} }
    \cup { View(OuterSave, NestedOffset, Len(NestedSave)) }

CallbackChoices == {"absent", "returns", "throws"}

ParseSaveOptions ==
    [onDecompressedSaveBody : CallbackChoices, onProgressCallback : CallbackChoices]

WriteOptions ==
    [onBinaryBeforeCompressing : CallbackChoices, onHeader : CallbackChoices,
     onChunk : CallbackChoices]

(***************************************************************************)
(* A call: its steps are recorded in trace, each with how it ended.        *)
(***************************************************************************)
Ev(e, r) == [e |-> e, r |-> r]

Err(name, message) == [name |-> name, message |-> message]

NoError == Err("none", <<>>)

Pending == [k |-> "pending", error |-> NoError, value |-> <<>>]

Returned(value) == [k |-> "returned", error |-> NoError, value |-> value]

Threw(error) == [k |-> "threw", error |-> error, value |-> <<>>]

\* what a callback that throws throws
CallbackError(name) == Err("CallbackError", <<name>>)

\* new SatisfactorySave(name, header): the other fields are not set yet
NewSave(header) ==
    [header |-> header, compressionInfo |-> NoCompressionInfo, gridHash |-> <<>>,
     grids |-> <<>>, levels |-> <<>>, assigned |-> {"header"}]

Assign(o, field, value) ==
    [[o EXCEPT ![field] = value] EXCEPT !.assigned = o.assigned \cup {field}]

\* the message of U6/U7 for every rejected version
UnsupportedVersionMessageOfU6(roughSaveVersion) ==
    <<[text |-> "Game Version U6/U7 is not supported in this package version. Consider downgrading to the latest package version supporting it, which is ",
       version |-> ""],
      [text |-> "", version |-> "0.0.34"]>>

\* the messages of lines 31, 33 and 35, the package version apart
UnsupportedVersionMessage(roughSaveVersion) ==
    CASE roughSaveVersion = "<U6" ->
            <<[text |-> "Game Version < U6 is not supported.", version |-> ""]>>
      [] roughSaveVersion = "U6/U7" ->
            <<[text |-> "Game Version U6/U7 is not supported in this package version. Consider downgrading to the latest package version supporting it, which is ",
               version |-> ""],
              [text |-> "", version |-> "0.0.34"]>>
      [] roughSaveVersion = "U8" ->
            <<[text |-> "Game Version U8 is not supported in this package version. Consider downgrading to the latest package version supporting it, which is ",
               version |-> ""],
              [text |-> "", version |-> "0.3.7"]>>

\* the step ends the call with an error
Throw(step, error) ==
    /\ trace' = Append(trace, Ev(step, "error"))
    /\ outcome' = Threw(error)
    /\ pc' = "done"

\* the step is over and the call goes on at next
Goto(step, next) ==
    /\ trace' = Append(trace, Ev(step, "ok"))
    /\ pc' = next
    /\ UNCHANGED outcome

\* a call of a callback that catches what the callback throws and goes on
InvokeSwallowing(name, choice, data, next) ==
    CASE choice = "absent" -> /\ pc' = next
                              /\ UNCHANGED <<trace, outcome, emitted>>
      [] choice = "returns" -> /\ Goto(name, next)
                               /\ emitted' = Append(emitted, [cb |-> name, data |-> data])
      [] choice = "throws" -> /\ trace' = Append(trace, Ev(name, "error"))
                              /\ pc' = next
                              /\ emitted' = Append(emitted, [cb |-> name, data |-> data])
                              /\ UNCHANGED outcome

\* a caller's callback is called with data: nothing is called when it is
\* absent; it returns or it throws
Invoke(name, choice, data, next) ==
    CASE choice = "absent" -> /\ pc' = next
                              /\ UNCHANGED <<trace, outcome, emitted>>
      [] choice = "returns" -> /\ Goto(name, next)
                               /\ emitted' = Append(emitted, [cb |-> name, data |-> data])
      [] choice = "throws" -> /\ Throw(name, CallbackError(name))
                              /\ emitted' = Append(emitted, [cb |-> name, data |-> data])

LastCall == log[Len(log)]

\* a call begins: what the call before left behind is dropped
Begin(name, arguments, first) ==
    /\ op = "none"
    /\ plan # <<>> /\ Head(plan) = name
    /\ plan' = Tail(plan)
    /\ op' = name
    /\ args' = arguments
    /\ pc' = first
    /\ trace' = <<>>
    /\ outcome' = Pending
    /\ emitted' = <<>>
    /\ UNCHANGED <<log, pure>>

\* the call is over: the caller has what it returned or threw
Complete ==
    /\ op # "none" /\ pc = "done"
    /\ log' = Append(log, [op |-> op, args |-> args, outcome |-> outcome,
                           trace |-> trace, emitted |-> emitted])
    /\ op' = "none"
    /\ pc' = "idle"
    /\ UNCHANGED <<plan, args, curReader, curObj, curWriter, trace, outcome, emitted, pure>>

At(name, label) == op = name /\ pc = label

\* a step of the reader: its value goes into field of the object being built
ReadInto(step, read, field, next) ==
    IF read.ok
    THEN /\ Goto(step, next)
         /\ curObj' = Assign(curObj, field, read.value)
         /\ curReader' = read.reader
    ELSE /\ Throw(step, Err(read.error, <<>>))
         /\ UNCHANGED <<curObj, curReader>>

\* the call returns value
Return(value) ==
    /\ trace' = Append(trace, Ev("return", "ok"))
    /\ outcome' = Returned(value)
    /\ pc' = "done"

(***************************************************************************)
(* Parser.ParseSave                                                        *)
(***************************************************************************)
\* the buffer ParseSave hands to the SaveReader: bytes.buffer
SaveReaderBuffer(bytes) == bytes.buffer

\* new SaveReader(bytes.buffer, options.onProgressCallback)
ParseSave_call ==
    \E bytes \in SaveViews, options \in ParseSaveOptions :
       /\ Begin("ParseSave", [bytes |-> bytes, options |-> options], "readHeader")
       /\ curReader' = NewFileReader(SaveReaderBuffer(bytes))
       /\ curObj' = <<>>
       /\ UNCHANGED curWriter

\* const header = reader.readHeader(); const save = new SatisfactorySave(name, header)
ParseSave_readHeader ==
    /\ At("ParseSave", "readHeader")
    /\ LET read == readHeader(curReader)
       IN  IF read.ok
           THEN /\ Goto("readHeader", "versionCheck")
                /\ curObj' = NewSave(read.value)
                /\ curReader' = read.reader
           ELSE /\ Throw("readHeader", Err(read.error, <<>>))
                /\ UNCHANGED <<curObj, curReader>>
    /\ UNCHANGED <<plan, op, args, curWriter, emitted, log, pure>>

\* a guard that lets U8 saves through
IsUnsupportedSkippingU8(roughSaveVersion) == roughSaveVersion \in {"<U6", "U6/U7"}

\* the rough versions the guard of lines 30 to 36 throws for
IsUnsupported(roughSaveVersion) == roughSaveVersion \in {"<U6", "U6/U7", "U8"}

\* guard save version
ParseSave_versionCheck ==
    /\ At("ParseSave", "versionCheck")
    /\ LET roughSaveVersion ==
              GetRoughSaveVersion(curObj.header.saveVersion, curObj.header.saveHeaderType)
       IN  IF IsUnsupported(roughSaveVersion)
           THEN Throw("versionCheck", Err("UnsupportedVersionError",
                                          UnsupportedVersionMessage(roughSaveVersion)))
           ELSE Goto("versionCheck", "inflateChunks")
    /\ UNCHANGED <<plan, op, args, curReader, curObj, curWriter, emitted, log, pure>>

\* const inflateResult = reader.inflateChunks(); save.compressionInfo = reader.compressionInfo
ParseSave_inflateChunks ==
    /\ At("ParseSave", "inflateChunks")
    /\ LET read == inflateChunks(curReader)
       IN  IF read.ok
           THEN /\ Goto("inflateChunks", "onDecompressedSaveBody")
                /\ curObj' = Assign(curObj, "compressionInfo", read.reader.compressionInfo)
                /\ curReader' = read.reader
           ELSE /\ Throw("inflateChunks", Err(read.error, <<>>))
                /\ UNCHANGED <<curObj, curReader>>
    /\ UNCHANGED <<plan, op, args, curWriter, emitted, log, pure>>

\* a ParseSave that goes on to the hash without calling the callback
ParseSave_onDecompressedSaveBodyNeverCalled ==
    /\ At("ParseSave", "onDecompressedSaveBody")
    /\ pc' = "readSaveBodyHash"
    /\ UNCHANGED <<plan, op, args, curReader, curObj, curWriter, trace, outcome, emitted,
                   log, pure>>

\* if (options.onDecompressedSaveBody !== undefined) options.onDecompressedSaveBody(reader.getBuffer())
ParseSave_onDecompressedSaveBody ==
    /\ At("ParseSave", "onDecompressedSaveBody")
    /\ Invoke("onDecompressedSaveBody", args.options.onDecompressedSaveBody,
              curReader.buf, "readSaveBodyHash")
    /\ UNCHANGED <<plan, op, args, curReader, curObj, curWriter, log, pure>>

\* save.gridHash = reader.readSaveBodyHash()
ParseSave_readSaveBodyHash ==
    /\ At("ParseSave", "readSaveBodyHash")
    /\ ReadInto("readSaveBodyHash", readSaveBodyHash(curReader), "gridHash", "readGrids")
    /\ UNCHANGED <<plan, op, args, curWriter, emitted, log, pure>>

\* save.grids = reader.readGrids()
ParseSave_readGrids ==
    /\ At("ParseSave", "readGrids")
    /\ ReadInto("readGrids", readGrids(curReader), "grids", "onProgressCallback")
    /\ UNCHANGED <<plan, op, args, curWriter, emitted, log, pure>>

\* the reader reports its progress to the callback it was built with, as it
\* starts on the levels
ParseSave_onProgressCallback ==
    /\ At("ParseSave", "onProgressCallback")
    /\ Invoke("onProgressCallback", args.options.onProgressCallback, <<>>, "readLevels")
    /\ UNCHANGED <<plan, op, args, curReader, curObj, curWriter, log, pure>>

\* save.levels = reader.readLevels()
ParseSave_readLevels ==
    /\ At("ParseSave", "readLevels")
    /\ ReadInto("readLevels", readLevels(curReader), "levels", "return")
    /\ UNCHANGED <<plan, op, args, curWriter, emitted, log, pure>>

\* return save
ParseSave_return ==
    /\ At("ParseSave", "return")
    /\ Return(curObj)
    /\ UNCHANGED <<plan, op, args, curReader, curObj, curWriter, emitted, log, pure>>

ParseSave ==
    \/ ParseSave_call
    \/ ParseSave_readHeader
    \/ ParseSave_versionCheck
    \/ ParseSave_inflateChunks
    \/ ParseSave_onDecompressedSaveBody
    \/ ParseSave_readSaveBodyHash
    \/ ParseSave_readGrids
    \/ ParseSave_onProgressCallback
    \/ ParseSave_readLevels
    \/ ParseSave_return

(***************************************************************************)
(* generateChunks of SaveWriter and BlueprintWriter: the body goes to the  *)
(* body callback, the header to the header callback, and each chunk, as it *)
(* is compressed, to the chunk callback.  A callback the caller left out   *)
(* is () => { }.                                                           *)
(***************************************************************************)
Writing == {"WriteSave", "WriteBlueprintFiles"}

\* the names the options of the two entry points give the three callbacks
CallbackName(generic) ==
    IF op = "WriteSave" THEN generic
    ELSE CASE generic = "onBinaryBeforeCompressing" -> "onMainFileBinaryBeforeCompressing"
           [] generic = "onHeader" -> "onMainFileHeader"
           [] generic = "onChunk" -> "onMainFileChunk"

\* the callbacks the entry point hands to generateChunks
GenerateChunksCallbacks ==
    IF op = "WriteSave"
    THEN [onBinaryBeforeCompressing |-> args.options.onBinaryBeforeCompressing,
          onHeader |-> args.options.onHeader,
          onChunk |-> args.options.onChunk]
    ELSE [onBinaryBeforeCompressing |-> args.options.onMainFileBinaryBeforeCompressing,
          onHeader |-> args.options.onMainFileHeader,
          onChunk |-> args.options.onMainFileChunk]

\* new SaveWriter(), new BlueprintWriter(), new BlueprintConfigWriter()
\* config is the buffer of the BlueprintConfigWriter, once there is one
NewFileWriter ==
    [buf |-> <<>>, posAfterHeader |-> 0, chunks |-> <<>>, sent |-> 0, config |-> <<>>]

WriterHeader(w) == SubSeq(w.buf, 1, w.posAfterHeader)

WriterBody(w) == SubSeq(w.buf, w.posAfterHeader + 1, Len(w.buf))

\* a step of the writer
WriteStep(step, buf, next) ==
    /\ Goto(step, next)
    /\ curWriter' = [curWriter EXCEPT !.buf = buf]

\* writer.endWriting(); writer.generateChunks(compressionInfo, posAfterHeader, ...)
generateChunks(compressionInfo) ==
    /\ Goto("generateChunks", "onBinaryBeforeCompressing")
    /\ curWriter' = [curWriter EXCEPT !.chunks = ChunksOf(WriterBody(curWriter),
                                                          compressionInfo)]

generateChunks_onBinaryBeforeCompressing ==
    /\ op \in Writing /\ pc = "onBinaryBeforeCompressing"
    /\ Invoke(CallbackName("onBinaryBeforeCompressing"),
              GenerateChunksCallbacks.onBinaryBeforeCompressing, WriterBody(curWriter),
              "onHeader")
    /\ UNCHANGED <<plan, op, args, curReader, curObj, curWriter, log, pure>>

generateChunks_onHeader ==
    /\ op \in Writing /\ pc = "onHeader"
    /\ Invoke(CallbackName("onHeader"), GenerateChunksCallbacks.onHeader,
              WriterHeader(curWriter),
              IF curWriter.chunks = <<>> THEN "chunked" ELSE "onChunk")
    /\ UNCHANGED <<plan, op, args, curReader, curObj, curWriter, log, pure>>

generateChunks_onChunk ==
    /\ op \in Writing /\ pc = "onChunk"
    /\ Invoke(CallbackName("onChunk"), GenerateChunksCallbacks.onChunk,
              curWriter.chunks[curWriter.sent + 1],
              IF curWriter.sent + 1 = Len(curWriter.chunks) THEN "chunked" ELSE "onChunk")
    /\ curWriter' = [curWriter EXCEPT !.sent = curWriter.sent + 1]
    /\ UNCHANGED <<plan, op, args, curReader, curObj, log, pure>>

\* what generateChunks returns
ChunkSummary(w) == SummaryOf(w.chunks, w.posAfterHeader)

(***************************************************************************)
(* Parser.WriteSave                                                        *)
(***************************************************************************)
\* the caller writes the save the call before returned
WriteSave_call ==
    \E options \in WriteOptions :
       /\ log # <<>> /\ LastCall.op = "ParseSave" /\ LastCall.outcome.k = "returned"
       /\ Begin("WriteSave", [save |-> LastCall.outcome.value, options |-> options],
                "WriteHeader")
       /\ curWriter' = NewFileWriter
       /\ UNCHANGED <<curReader, curObj>>

\* SaveWriter.WriteHeader(writer, save.header); posAfterHeader = writer.getBufferPosition()
WriteSave_WriteHeader ==
    /\ At("WriteSave", "WriteHeader")
    /\ Goto("WriteHeader", "WriteSaveBodyHash")
    /\ LET buf == WriteHeader(curWriter.buf, args.save.header)
       IN  curWriter' = [curWriter EXCEPT !.buf = buf, !.posAfterHeader = Len(buf)]
    /\ UNCHANGED <<plan, op, args, curReader, curObj, emitted, log, pure>>

\* SaveWriter.WriteSaveBodyHash(writer, save.gridHash)
WriteSave_WriteSaveBodyHash ==
    /\ At("WriteSave", "WriteSaveBodyHash")
    /\ WriteStep("WriteSaveBodyHash", WriteSaveBodyHash(curWriter.buf, args.save.gridHash),
                 "WriteGrids")
    /\ UNCHANGED <<plan, op, args, curReader, curObj, emitted, log, pure>>

\* SaveWriter.WriteGrids(writer, save.grids)
WriteSave_WriteGrids ==
    /\ At("WriteSave", "WriteGrids")
    /\ WriteStep("WriteGrids", WriteGrids(curWriter.buf, args.save.grids), "WriteLevels")
    /\ UNCHANGED <<plan, op, args, curReader, curObj, emitted, log, pure>>

\* SaveWriter.WriteLevels(writer, save, save.header.buildVersion)
WriteSave_WriteLevels ==
    /\ At("WriteSave", "WriteLevels")
    /\ WriteStep("WriteLevels",
                 WriteLevels(curWriter.buf, args.save.levels, args.save.header.buildVersion),
                 "generateChunks")
    /\ UNCHANGED <<plan, op, args, curReader, curObj, emitted, log, pure>>

\* the compression info WriteSave chunks with: save.compressionInfo!
WriteSaveCompressionInfo(save) == save.compressionInfo

\* writer.endWriting(); const chunkSummary = writer.generateChunks(save.compressionInfo!, ...)
WriteSave_generateChunks ==
    /\ At("WriteSave", "generateChunks")
    /\ generateChunks(WriteSaveCompressionInfo(args.save))
    /\ UNCHANGED <<plan, op, args, curReader, curObj, emitted, log, pure>>

\* return chunkSummary
WriteSave_return ==
    /\ At("WriteSave", "chunked")
    /\ Return(ChunkSummary(curWriter))
    /\ UNCHANGED <<plan, op, args, curReader, curObj, curWriter, emitted, log, pure>>

WriteSave ==
    \/ WriteSave_call
    \/ WriteSave_WriteHeader
    \/ WriteSave_WriteSaveBodyHash
    \/ WriteSave_WriteGrids
    \/ WriteSave_WriteLevels
    \/ WriteSave_generateChunks
    \/ WriteSave_return

(***************************************************************************)
(* Parser.ParseBlueprintFiles                                              *)
(***************************************************************************)
BlueprintHeaders == {<<2, 4>>, <<3, 4>>}

ObjectBodies == {<<0>>, <<2, 41, 42>>}

LegalBlueprints == { MakeFile(h, b, 2) : h \in BlueprintHeaders, b \in ObjectBodies }

\* a header cut short, a chunk cut short, objects cut short
BrokenBlueprints ==
    { <<2>>,
      SubSeq(MakeFile(<<2, 4>>, <<0>>, 2), 1, Len(MakeFile(<<2, 4>>, <<0>>, 2)) - 1),
      MakeFile(<<2, 4>>, <<2, 41>>, 2) }

BlueprintViews ==
    { WholeOf(f) : f \in LegalBlueprints \cup BrokenBlueprints }
    \cup { View(Padding \o f, Len(Padding), Len(f)) : f \in LegalBlueprints }

ConfigViews ==
    { WholeOf(f) : f \in {<<5, 6>>, <<5, 9>>, <<5>>} }
    \cup { View(Padding \o <<5, 6>>, Len(Padding), ConfigLen) }

ParseBlueprintOptions == [onDecompressedBlueprintBody : CallbackChoices]

WriteBlueprintOptions ==
    [onMainFileBinaryBeforeCompressing : CallbackChoices,
     onMainFileHeader : CallbackChoices, onMainFileChunk : CallbackChoices]

NewBlueprint ==
    [compressionInfo |-> NoCompressionInfo, header |-> <<>>, config |-> <<>>,
     objects |-> <<>>, assigned |-> {}]

ParseBlueprintFiles_call ==
    \E blueprintFile \in BlueprintViews, blueprintConfigFile \in ConfigViews,
       options \in ParseBlueprintOptions :
       /\ Begin("ParseBlueprintFiles",
                [blueprintFile |-> blueprintFile,
                 blueprintConfigFile |-> blueprintConfigFile, options |-> options],
                "ParseConfig")
       /\ curObj' = NewBlueprint
       /\ curReader' = <<>>
       /\ UNCHANGED curWriter

\* a config reader that is given the main file
ConfigReaderBufferOfMainFile(blueprintFile, blueprintConfigFile) == CopyOf(blueprintFile)

\* the buffer of the config reader: new Uint8Array(blueprintConfigFile).buffer
ConfigReaderBuffer(blueprintFile, blueprintConfigFile) == CopyOf(blueprintConfigFile)

\* the buffer of the blueprint reader: new Uint8Array(blueprintFile).buffer
BlueprintReaderBuffer(blueprintFile, blueprintConfigFile) == CopyOf(blueprintFile)

\* read config file
ParseBlueprintFiles_ParseConfig ==
    /\ At("ParseBlueprintFiles", "ParseConfig")
    /\ LET blueprintConfigReader ==
              NewFileReader(ConfigReaderBuffer(args.blueprintFile, args.blueprintConfigFile))
           read == BlueprintParseConfig(blueprintConfigReader)
       IN  IF read.ok
           THEN /\ Goto("ParseConfig", "ReadHeader")
                /\ curObj' = Assign(curObj, "config", read.value)
           ELSE /\ Throw("ParseConfig", Err(read.error, <<>>))
                /\ UNCHANGED curObj
    /\ UNCHANGED <<plan, op, args, curReader, curWriter, emitted, log, pure>>

\* read actual blueprint file
ParseBlueprintFiles_ReadHeader ==
    /\ At("ParseBlueprintFiles", "ReadHeader")
    /\ LET blueprintReader ==
              NewFileReader(BlueprintReaderBuffer(args.blueprintFile,
                                                  args.blueprintConfigFile))
       IN  ReadInto("ReadHeader", BlueprintReadHeader(blueprintReader), "header",
                    "inflateChunks")
    /\ UNCHANGED <<plan, op, args, curWriter, emitted, log, pure>>

\* const inflateResult = blueprintReader.inflateChunks()
ParseBlueprintFiles_inflateChunks ==
    /\ At("ParseBlueprintFiles", "inflateChunks")
    /\ LET read == inflateChunks(curReader)
       IN  IF read.ok
           THEN /\ Goto("inflateChunks", "onDecompressedBlueprintBody")
                /\ curReader' = read.reader
           ELSE /\ Throw("inflateChunks", Err(read.error, <<>>))
                /\ UNCHANGED curReader
    /\ UNCHANGED <<plan, op, args, curObj, curWriter, emitted, log, pure>>

\* call back on decompressed body
ParseBlueprintFiles_onDecompressedBlueprintBody ==
    /\ At("ParseBlueprintFiles", "onDecompressedBlueprintBody")
    /\ Invoke("onDecompressedBlueprintBody", args.options.onDecompressedBlueprintBody,
              curReader.buf, "ParseObjects")
    /\ UNCHANGED <<plan, op, args, curReader, curObj, curWriter, log, pure>>

\* const blueprintObjects = BlueprintReader.ParseObjects(blueprintReader)
ParseBlueprintFiles_ParseObjects ==
    /\ At("ParseBlueprintFiles", "ParseObjects")
    /\ ReadInto("ParseObjects", BlueprintParseObjects(curReader), "objects", "return")
    /\ UNCHANGED <<plan, op, args, curWriter, emitted, log, pure>>

\* return { name, compressionInfo: blueprintReader.compressionInfo, header, config, objects }
ParseBlueprintFiles_return ==
    /\ At("ParseBlueprintFiles", "return")
    /\ Return(Assign(curObj, "compressionInfo", curReader.compressionInfo))
    /\ UNCHANGED <<plan, op, args, curReader, curObj, curWriter, emitted, log, pure>>

ParseBlueprintFiles ==
    \/ ParseBlueprintFiles_call
    \/ ParseBlueprintFiles_ParseConfig
    \/ ParseBlueprintFiles_ReadHeader
    \/ ParseBlueprintFiles_inflateChunks
    \/ ParseBlueprintFiles_onDecompressedBlueprintBody
    \/ ParseBlueprintFiles_ParseObjects
    \/ ParseBlueprintFiles_return

(***************************************************************************)
(* Parser.WriteBlueprintFiles                                              *)
(***************************************************************************)
\* the caller writes the blueprint the call before returned
WriteBlueprintFiles_call ==
    \E options \in WriteBlueprintOptions :
       /\ log # <<>> /\ LastCall.op = "ParseBlueprintFiles"
       /\ LastCall.outcome.k = "returned"
       /\ Begin("WriteBlueprintFiles",
                [blueprint |-> LastCall.outcome.value, options |-> options],
                "SerializeHeader")
       /\ curWriter' = NewFileWriter
       /\ UNCHANGED <<curReader, curObj>>

\* BlueprintWriter.SerializeHeader(blueprintWriter, blueprint.header); saveBodyPos = ...
WriteBlueprintFiles_SerializeHeader ==
    /\ At("WriteBlueprintFiles", "SerializeHeader")
    /\ Goto("SerializeHeader", "SerializeObjects")
    /\ LET buf == BlueprintSerializeHeader(curWriter.buf, args.blueprint.header)
       IN  curWriter' = [curWriter EXCEPT !.buf = buf, !.posAfterHeader = Len(buf)]
    /\ UNCHANGED <<plan, op, args, curReader, curObj, emitted, log, pure>>

\* BlueprintWriter.SerializeObjects(blueprintWriter, blueprint.objects)
WriteBlueprintFiles_SerializeObjects ==
    /\ At("WriteBlueprintFiles", "SerializeObjects")
    /\ WriteStep("SerializeObjects",
                 BlueprintSerializeObjects(curWriter.buf, args.blueprint.objects),
                 "generateChunks")
    /\ UNCHANGED <<plan, op, args, curReader, curObj, emitted, log, pure>>

\* blueprintWriter.endWriting(); blueprintWriter.generateChunks(blueprint.compressionInfo, ...)
WriteBlueprintFiles_generateChunks ==
    /\ At("WriteBlueprintFiles", "generateChunks")
    /\ generateChunks(args.blueprint.compressionInfo)
    /\ UNCHANGED <<plan, op, args, curReader, curObj, emitted, log, pure>>

\* write config as well
WriteBlueprintFiles_SerializeConfig ==
    /\ At("WriteBlueprintFiles", "chunked")
    /\ Goto("SerializeConfig", "return")
    /\ curWriter' = [curWriter EXCEPT
                        !.config = BlueprintSerializeConfig(<<>>, args.blueprint.config)]
    /\ UNCHANGED <<plan, op, args, curReader, curObj, emitted, log, pure>>

\* return { mainFileChunkSummary, configFileBinary }
WriteBlueprintFiles_return ==
    /\ At("WriteBlueprintFiles", "return")
    /\ Return([mainFileChunkSummary |-> ChunkSummary(curWriter),
               configFileBinary |-> curWriter.config])
    /\ UNCHANGED <<plan, op, args, curReader, curObj, curWriter, emitted, log, pure>>

WriteBlueprintFiles ==
    \/ WriteBlueprintFiles_call
    \/ WriteBlueprintFiles_SerializeHeader
    \/ WriteBlueprintFiles_SerializeObjects
    \/ WriteBlueprintFiles_generateChunks
    \/ WriteBlueprintFiles_SerializeConfig
    \/ WriteBlueprintFiles_return

(***************************************************************************)
(* The caller, and the specifications                                      *)
(***************************************************************************)
FacadeInit(plans) ==
    /\ plan \in plans
    /\ op = "none" /\ pc = "idle" /\ args = <<>> /\ curReader = <<>> /\ curObj = <<>>
    /\ curWriter = NewFileWriter /\ trace = <<>> /\ outcome = Pending /\ emitted = <<>>
    /\ log = <<>>
    /\ fic = Idle /\ vec = Idle /\ js = Idle

\* a file is parsed and what was parsed is written
Init ==
    FacadeInit({<<"ParseSave", "WriteSave">>,
                <<"ParseBlueprintFiles", "WriteBlueprintFiles">>})

Next ==
    \/ ParseSave
    \/ WriteSave
    \/ ParseBlueprintFiles
    \/ WriteBlueprintFiles
    \/ generateChunks_onBinaryBeforeCompressing
    \/ generateChunks_onHeader
    \/ generateChunks_onChunk
    \/ Complete

Spec == Init /\ [][Next]_vars

\* two files are parsed, one after the other
InitTwice ==
    FacadeInit({<<"ParseSave", "ParseSave">>,
                <<"ParseBlueprintFiles", "ParseBlueprintFiles">>})

NextTwice == ParseSave \/ ParseBlueprintFiles \/ Complete

SpecTwice == InitTwice /\ [][NextTwice]_vars

(***************************************************************************)
(* What a call did                                                         *)
(***************************************************************************)
Callbacks ==
    {"onDecompressedSaveBody", "onProgressCallback", "onDecompressedBlueprintBody",
     "onBinaryBeforeCompressing", "onHeader", "onChunk",
     "onMainFileBinaryBeforeCompressing", "onMainFileHeader", "onMainFileChunk"}

IsCallback(ev) == ev.e \in Callbacks

IsStep(ev) == ev.e \notin Callbacks

\* the steps of a trace, the callbacks left out
StepsOf(t) == SelectSeq(t, IsStep)

Happened(t, e) == \E i \in 1..Len(t) : t[i].e = e

Count(t, e) == Cardinality({i \in 1..Len(t) : t[i].e = e})

\* the package versions a message names
VersionsNamed(message) ==
    {message[i].version : i \in 1..Len(message)} \ {""}

RoughVersionOf(save) ==
    GetRoughSaveVersion(save.header.saveVersion, save.header.saveHeaderType)

VersionChecked == op = "ParseSave" /\ Happened(trace, "versionCheck")

ParseSaveOrder ==
    <<"readHeader", "versionCheck", "inflateChunks", "readSaveBodyHash", "readGrids",
      "readLevels", "return">>

\* C3: the steps of ParseSave occur in the order read header, version check,
\* inflate chunks, read body hash, read grids, read levels, each at most
\* once and each only after every earlier one completed without error; a
\* save is returned only after the levels were read; a save of a rejected
\* version is never inflated and none of its hash, grids or levels is read.
C3_DecodeOrdering ==
    op = "ParseSave" =>
       LET steps == StepsOf(trace)
       IN  /\ Len(steps) <= Len(ParseSaveOrder)
           /\ \A i \in 1..Len(steps) : steps[i].e = ParseSaveOrder[i]
           /\ \A i \in 1..(Len(steps) - 1) : steps[i].r = "ok"
           /\ outcome.k = "returned" =>
                 /\ \E i \in 1..Len(steps) : steps[i] = Ev("readLevels", "ok")
                 /\ curObj.assigned = {"header", "compressionInfo", "gridHash", "grids",
                                       "levels"}
           /\ (/\ Happened(trace, "versionCheck")
               /\ RoughVersionOf(curObj) \in {"<U6", "U6/U7", "U8"}) =>
                 /\ ~ Happened(trace, "inflateChunks")
                 /\ ~ Happened(trace, "readSaveBodyHash")
                 /\ ~ Happened(trace, "readGrids")
                 /\ ~ Happened(trace, "readLevels")
                 /\ curObj.assigned = {"header"}
                 /\ curReader.compressionInfo = NoCompressionInfo

C3_Witness ==
    /\ op = "ParseSave" /\ outcome.k = "returned"
    /\ args.options.onDecompressedSaveBody = "returns"
    /\ Len(outcome.value.levels) > 1

(***************************************************************************)
(* C4: a callback that throws                                              *)
(***************************************************************************)
\* what the caller supplied under the name the callback is called by
ChoiceOf(name) ==
    CASE name = "onDecompressedSaveBody" -> args.options.onDecompressedSaveBody
      [] name = "onProgressCallback" -> args.options.onProgressCallback
      [] name = "onDecompressedBlueprintBody" -> args.options.onDecompressedBlueprintBody
      [] name = "onBinaryBeforeCompressing" -> args.options.onBinaryBeforeCompressing
      [] name = "onHeader" -> args.options.onHeader
      [] name = "onChunk" -> args.options.onChunk
      [] name = "onMainFileBinaryBeforeCompressing" ->
            args.options.onMainFileBinaryBeforeCompressing
      [] name = "onMainFileHeader" -> args.options.onMainFileHeader
      [] name = "onMainFileChunk" -> args.options.onMainFileChunk

BodySteps ==
    {"readSaveBodyHash", "readGrids", "readLevels", "ParseObjects", "SerializeConfig",
     "return"}

\* C4: in each of the four entry points, when a callback the caller supplied
\* throws, the call throws that error, returns no value and runs no step
\* after the callback: ParseSave reads no hash, grids or levels after
\* onDecompressedSaveBody threw, no blueprint objects are parsed, and
\* WriteBlueprintFiles serializes no config file.
C4_CallbackErrorsPropagate ==
    \A j \in 1..Len(emitted) :
       ChoiceOf(emitted[j].cb) = "throws" =>
          /\ j = Len(emitted)
          /\ trace[Len(trace)] = Ev(emitted[j].cb, "error")
          /\ pc \in {"done", "idle"}
          /\ outcome = Threw(CallbackError(emitted[j].cb))
          /\ outcome.value = <<>>
          /\ emitted[j].cb = "onDecompressedSaveBody" =>
                /\ curObj.assigned = {"header", "compressionInfo"}
                /\ \A e \in BodySteps : ~ Happened(trace, e)
          /\ emitted[j].cb = "onProgressCallback" => "levels" \notin curObj.assigned
          /\ emitted[j].cb = "onDecompressedBlueprintBody" =>
                /\ "objects" \notin curObj.assigned
                /\ \A e \in BodySteps : ~ Happened(trace, e)
          /\ op \in Writing =>
                /\ curWriter.config = <<>>
                /\ \A e \in BodySteps : ~ Happened(trace, e)

C4_Witness ==
    /\ op = "WriteBlueprintFiles"
    /\ args.options.onMainFileChunk = "throws"
    /\ curWriter.sent = 1 /\ Len(curWriter.chunks) > 1
    /\ outcome = Threw(CallbackError("onMainFileChunk"))

(***************************************************************************)
(* C1: a save that is parsed and written                                   *)
(***************************************************************************)
RECURSIVE EmittedFile(_)
\* the header and the chunks WriteSave handed to onHeader and onChunk
EmittedFile(calls) ==
    IF calls = <<>> THEN <<>>
    ELSE (IF Head(calls).cb \in {"onHeader", "onChunk"} THEN Head(calls).data ELSE <<>>)
         \o EmittedFile(Tail(calls))

\* WriteSave returned what it wrote of the save ParseSave returned
SaveWritten ==
    /\ op = "WriteSave" /\ outcome.k = "returned"
    /\ args.options.onHeader = "returns" /\ args.options.onChunk = "returns"

\* C1: for every legal save bytes that ParseSave accepts, the header and the
\* chunks WriteSave emits for the parsed save are bytes, byte for byte.
C1_SaveRoundTrip ==
    (SaveWritten /\ Contents(LastCall.args.bytes) \in LegalSaves) =>
       EmittedFile(emitted) = Contents(LastCall.args.bytes)

\* C1 for the saves that fill the buffer they lie in
C1_Witness ==
    /\ SaveWritten
    /\ LastCall.args.bytes = WholeOf(MakeFile(CurrentHeader, FullBody, 4))
    /\ EmittedFile(emitted) = MakeFile(CurrentHeader, FullBody, 4)

(***************************************************************************)
(* C5: the callback on the decompressed body                               *)
(***************************************************************************)
Parsing == {"ParseSave", "ParseBlueprintFiles"}

DecompressedBodyCallback(name) ==
    IF name = "ParseSave" THEN "onDecompressedSaveBody" ELSE "onDecompressedBlueprintBody"

DecompressedBodyChoice(call) ==
    IF call.op = "ParseSave" THEN call.args.options.onDecompressedSaveBody
    ELSE call.args.options.onDecompressedBlueprintBody

\* the two calls differ in nothing but the callback on the decompressed body
SameButForTheCallback(a, b) ==
    /\ a.op = b.op
    /\ IF a.op = "ParseSave"
       THEN /\ a.args.bytes = b.args.bytes
            /\ a.args.options.onProgressCallback = b.args.options.onProgressCallback
       ELSE /\ a.args.blueprintFile = b.args.blueprintFile
            /\ a.args.blueprintConfigFile = b.args.blueprintConfigFile

NotTheCallback(ev) ==
    ev.e \notin {"onDecompressedSaveBody", "onDecompressedBlueprintBody"}

\* C5: a callback on the decompressed body that is supplied is called
\* exactly once in every call that returns, right after inflateChunks
\* returned and before the hash, the grids, the levels or the objects are
\* parsed; it is not called when the version check or the inflating fails;
\* a call without the callback proceeds as the call with it does.
C5_DecompressedBodyCallback ==
    /\ op \in Parsing =>
          LET cb == DecompressedBodyCallback(op)
          IN  /\ Count(trace, cb) <= 1
              /\ ChoiceOf(cb) = "absent" => Count(trace, cb) = 0
              /\ (ChoiceOf(cb) # "absent" /\ outcome.k = "returned") =>
                    /\ Count(trace, cb) = 1
                    /\ Len(emitted) >= 1 /\ emitted[1].cb = cb
                    /\ emitted[1].data = curReader.buf
              /\ \A i \in 1..Len(trace) :
                    trace[i].e = cb =>
                       /\ i > 1 /\ trace[i - 1] = Ev("inflateChunks", "ok")
                       /\ \A k \in 1..(i - 1) : trace[k].e \notin BodySteps
              /\ (\E i \in 1..Len(trace) :
                     trace[i] \in {Ev("versionCheck", "error"), Ev("inflateChunks", "error")})
                 => Count(trace, cb) = 0
    /\ \A a, b \in 1..Len(log) :
          (/\ log[a].op \in Parsing
           /\ SameButForTheCallback(log[a], log[b])
           /\ DecompressedBodyChoice(log[a]) = "absent"
           /\ DecompressedBodyChoice(log[b]) = "returns") =>
             /\ log[a].outcome = log[b].outcome
             /\ log[a].trace = SelectSeq(log[b].trace, NotTheCallback)

C5_Witness ==
    /\ Len(log) = 2
    /\ log[1].op = "ParseSave" /\ log[1].outcome.k = "returned"
    /\ SameButForTheCallback(log[1], log[2])
    /\ DecompressedBodyChoice(log[1]) = "absent"
    /\ DecompressedBodyChoice(log[2]) = "returns"
    /\ Count(log[2].trace, "onDecompressedSaveBody") = 1

(***************************************************************************)
(* C7: the two files of a blueprint                                        *)
(***************************************************************************)
BlueprintReturned(call) == call.op = "ParseBlueprintFiles" /\ call.outcome.k = "returned"

\* C7: the config ParseBlueprintFiles returns depends on the bytes of the
\* config file only and is read before anything is inflated; the header,
\* the compression info and the objects depend on the bytes of the main
\* file only; the main file is decoded by reading the header, inflating the
\* chunks and parsing the objects, with no hash, grids or levels.
C7_BlueprintFilesIndependent ==
    /\ \A a, b \in 1..Len(log) :
          (BlueprintReturned(log[a]) /\ BlueprintReturned(log[b])) =>
             /\ Contents(log[a].args.blueprintConfigFile)
                   = Contents(log[b].args.blueprintConfigFile)
                => log[a].outcome.value.config = log[b].outcome.value.config
             /\ Contents(log[a].args.blueprintFile) = Contents(log[b].args.blueprintFile)
                => /\ log[a].outcome.value.header = log[b].outcome.value.header
                   /\ log[a].outcome.value.compressionInfo
                         = log[b].outcome.value.compressionInfo
                   /\ log[a].outcome.value.objects = log[b].outcome.value.objects
    /\ op = "ParseBlueprintFiles" =>
          LET steps == StepsOf(trace)
              order == <<"ParseConfig", "ReadHeader", "inflateChunks", "ParseObjects",
                         "return">>
          IN  /\ Len(steps) <= Len(order)
              /\ \A i \in 1..Len(steps) : steps[i].e = order[i]
              /\ Happened(trace, "ParseConfig") /\ ~ Happened(trace, "ReadHeader")
                 => curReader = <<>>

C7_Witness ==
    /\ Len(log) = 2
    /\ BlueprintReturned(log[1]) /\ BlueprintReturned(log[2])
    /\ Contents(log[1].args.blueprintConfigFile) = Contents(log[2].args.blueprintConfigFile)
    /\ log[1].args.blueprintConfigFile # log[2].args.blueprintConfigFile
    /\ Contents(log[1].args.blueprintFile) # Contents(log[2].args.blueprintFile)
    /\ log[1].outcome.value.header # log[2].outcome.value.header
    /\ log[1].outcome.value.config = log[2].outcome.value.config

(***************************************************************************)
(* C10: the bytes ParseSave decodes                                        *)
(***************************************************************************)
\* two calls of ParseSave on views of equal contents
SameContents(a, b) ==
    /\ a.op = "ParseSave" /\ b.op = "ParseSave"
    /\ Contents(a.args.bytes) = Contents(b.args.bytes)
    /\ a.args.options = b.args.options

\* C10: two calls of ParseSave whose bytes have equal contents return equal
\* saves or throw the same error, wherever the views lie in their buffers.
C10_ParseSaveDecodesTheView ==
    \A a, b \in 1..Len(log) :
       SameContents(log[a], log[b]) => log[a].outcome = log[b].outcome

\* C10 of ParseBlueprintFiles, which copies its inputs
C10_Witness ==
    /\ Len(log) = 2
    /\ BlueprintReturned(log[1]) /\ BlueprintReturned(log[2])
    /\ Contents(log[1].args.blueprintFile) = Contents(log[2].args.blueprintFile)
    /\ log[1].args.blueprintFile # log[2].args.blueprintFile
    /\ log[1].outcome.value.objects = log[2].outcome.value.objects

=============================================================================
